---- MODULE Spec2Model ----
(***************************************************************************)
(* rustsync: the directory-mirroring daemon of src/src/main.rs.            *)
(*                                                                         *)
(* A path is the sequence of its components, as std::path::Path iterates   *)
(* them: an absolute path starts with the root component "/".  A path      *)
(* written with a separator at its end ("/test/output/") has the empty     *)
(* name "" as its last element: Path ignores it, the kernel does not.      *)
(* The file system is one function from the absolute paths that exist to   *)
(* their entries; source tree, destination tree and everything else live   *)
(* in it together, as on the real machine.                                 *)
(***************************************************************************)
EXTENDS Naturals, Sequences, FiniteSets, TLC

VARIABLES
    fs,        \* the file system: existing absolute path -> entry
    chan,      \* the mpsc channel: items sent by the watcher, not yet received
    sent,      \* number of items the watcher has sent so far
    closed,    \* TRUE once the sending side of the channel is dropped
    pc,        \* main's position: "start", "loop", "done" (returned Ok),
               \* "failed" (returned the error) or "panicked"
    handled,   \* number of items the loop has taken from the channel
    last,      \* the item taken last (NoItem before the first)
    pre,       \* the file system as it was when `last` was taken
    out,       \* the lines printed while handling `last`
    calls,     \* the file-system calls made while handling `last`
    mapped,    \* the change_root calls made while handling `last`
    keyrun     \* a run of the key utility: its directory, files and position

vars == <<fs, chan, sent, closed, pc, handled, last, pre, out, calls, mapped,
          keyrun>>

(***************************************************************************)
(* Bounds of the model.                                                    *)
(***************************************************************************)
\* items the watcher sends in one run when it sends the events of LoopEvents
MaxEvents == 2
\* items the watcher sends in one run when it sends events of every kind
MaxArrivals == 1
\* items that may wait in the channel at once
MaxQueue == 2
\* symbolic links followed in one path resolution before ELOOP
MaxHops == 2

(***************************************************************************)
(* Paths.                                                                  *)
(***************************************************************************)
WatchRoot == <<"/", "test", "input">>
OutputRoot == <<"/", "test", "output">>

\* a file outside both roots
Outside == <<"/", "test", "x">>

IsAbsolute(p) == p # <<>> /\ Head(p) = "/"

IsPrefix(a, b) == Len(a) <= Len(b) /\ SubSeq(b, 1, Len(a)) = a

None == [some |-> FALSE, val |-> <<>>]
Some(p) == [some |-> TRUE, val |-> p]

\* the path is written with a separator at its end
HasSlash(p) == p # <<>> /\ p[Len(p)] = ""

\* Path::components: a separator at the end of the path is no component
Components(p) == IF HasSlash(p) THEN SubSeq(p, 1, Len(p) - 1) ELSE p

StripFrom(c, base) ==
    IF IsPrefix(base, c) THEN Some(SubSeq(c, Len(base) + 1, Len(c))) ELSE None

\* Path::strip_prefix: the components of path after base, when base is a
\* component-wise prefix of path
strip_prefix(path, base) == StripFrom(Components(path), base)

\* Path::join: an absolute argument replaces the base; joining the empty
\* path writes a separator at the end of the base
join(base, rel) ==
    IF IsAbsolute(rel) THEN rel
    ELSE IF rel = <<>> THEN base \o <<"">>
    ELSE base \o rel

ParentOf(c) ==
    IF c = <<>> \/ c = <<"/">> THEN None ELSE Some(SubSeq(c, 1, Len(c) - 1))

\* Path::parent: None for the root and for the empty path
parent(p) == ParentOf(Components(p))

\* change_root with the wrong root joined
change_root_join_watch(path) ==
    LET relative == strip_prefix(path, WatchRoot)
    IN  IF relative.some THEN Some(join(WatchRoot, relative.val)) ELSE None

change_root(path) ==
    LET relative == strip_prefix(path, WatchRoot)
    IN  IF relative.some THEN Some(join(OutputRoot, relative.val)) ELSE None

(***************************************************************************)
(* File-system entries.                                                    *)
(***************************************************************************)
ProcUser == "u_proc"
Now == "t_now"
DirMode == "m755"
Empty == "empty"

FileEntry(content, mode, times, owner, nlink) ==
    [kind |-> "file", content |-> content, mode |-> mode, times |-> times,
     owner |-> owner, nlink |-> nlink, target |-> <<>>]

\* a directory with no sub-directory: its own name and its "." link to it
DirEntry(mode, times, owner) ==
    [kind |-> "dir", content |-> Empty, mode |-> mode, times |-> times,
     owner |-> owner, nlink |-> 2, target |-> <<>>]

LinkEntry(target, times, owner) ==
    [kind |-> "symlink", content |-> Empty, mode |-> "m777", times |-> times,
     owner |-> owner, nlink |-> 1, target |-> target]

Exists(f, p) == p \in DOMAIN f

Ok(f) == [err |-> "", fs |-> f]
Err(e, f) == [err |-> e, fs |-> f]

Found(p) == [err |-> "", path |-> p]
NotFound(e) == [err |-> e, path |-> <<>>]

(***************************************************************************)
(* Access.  The process runs as ProcUser, without privileges, and shares   *)
(* no group with another user: on its own entries the owner's bits of the  *)
(* mode decide, on every other entry the bits of the others.               *)
(***************************************************************************)
OwnerBits(mode) ==
    CASE mode \in {"m700", "m750", "m755", "m777"} -> {"r", "w", "x"}
      [] mode \in {"m600", "m640", "m644"} -> {"r", "w"}
      [] OTHER -> {}

OtherBits(mode) ==
    CASE mode = "m777" -> {"r", "w", "x"}
      [] mode = "m755" -> {"r", "x"}
      [] mode = "m644" -> {"r"}
      [] OTHER -> {}

\* inode_permission: may the process read ("r"), write ("w") or search
\* ("x") the entry at p
May(f, p, bit) ==
    bit \in (IF f[p].owner = ProcUser THEN OwnerBits(f[p].mode)
             ELSE OtherBits(f[p].mode))

\* Path resolution as the kernel does it: cur is a directory already
\* resolved, rest the components still to walk.  Looking a name up in a
\* directory needs search permission on it.  A symbolic link in the middle
\* of the path is always followed, the last component only if follow is
\* set.  A missing last component resolves to the place it would be created
\* at.  A separator at the end of the path asks for a directory: what stands
\* before it is followed if it is a link, and must be a directory.
RECURSIVE Walk(_, _, _, _, _)
Walk(f, cur, rest, follow, fuel) ==
    IF rest = <<>> THEN Found(cur)
    ELSE IF ~Exists(f, cur) THEN NotFound("ENOENT")
    ELSE IF f[cur].kind # "dir" THEN NotFound("ENOTDIR")
    ELSE IF Head(rest) = "" THEN Walk(f, cur, Tail(rest), follow, fuel)
    ELSE IF ~May(f, cur, "x") THEN NotFound("EACCES")
    ELSE
      LET nxt == cur \o <<Head(rest)>>
          more == Tail(rest)
      IN  IF ~Exists(f, nxt)
          THEN IF more = <<>> \/ more = <<"">> THEN Found(nxt)
               ELSE NotFound("ENOENT")
          ELSE IF f[nxt].kind = "symlink" /\ (more # <<>> \/ follow)
          THEN IF fuel = 0 THEN NotFound("ELOOP")
               ELSE LET t == f[nxt].target
                    IN  IF IsAbsolute(t)
                        THEN Walk(f, <<"/">>, Tail(t) \o more, follow, fuel - 1)
                        ELSE Walk(f, cur, t \o more, follow, fuel - 1)
          ELSE IF more = <<>> THEN Found(nxt)
          ELSE Walk(f, nxt, more, follow, fuel)

Resolve(f, p, follow) ==
    IF ~IsAbsolute(p) THEN NotFound("ENOENT")
    ELSE Walk(f, <<"/">>, Tail(p), follow, MaxHops)

\* fs::metadata (stat: follows links) and fs::symlink_metadata (lstat)
metadata(f, p) ==
    LET at(r) == IF r.err = "" /\ Exists(f, r.path) THEN Some(f[r.path]) ELSE None
    IN  at(Resolve(f, p, TRUE))

symlink_metadata(f, p) ==
    LET at(r) == IF r.err = "" /\ Exists(f, r.path) THEN Some(f[r.path]) ELSE None
    IN  at(Resolve(f, p, FALSE))

Is(m, kind) == m.some /\ m.val.kind = kind

is_dir(f, p) == Is(metadata(f, p), "dir")
is_file(f, p) == Is(metadata(f, p), "file")
is_symlink(f, p) == Is(symlink_metadata(f, p), "symlink")

(***************************************************************************)
(* File-system calls.  Each returns the error ("" for success) and the     *)
(* file system it leaves behind.  The failures modelled are those that the *)
(* state of the file system decides.  An entry's times are its             *)
(* modification time (and, after set_file_times, the access time set with  *)
(* it): a directory's becomes Now whenever an entry is added to it or      *)
(* removed from it.  A directory's link count is 2 plus the number of its  *)
(* sub-directories.                                                        *)
(***************************************************************************)
\* the directories right under the directory at p
SubDirs(f, p) ==
    {q \in DOMAIN f : Len(q) = Len(p) + 1 /\ IsPrefix(p, q) /\ f[q].kind = "dir"}

\* every directory's link count, counted anew
Normal(f) ==
    [q \in DOMAIN f |->
        IF f[q].kind = "dir"
        THEN [f[q] EXCEPT !.nlink = 2 + Cardinality(SubDirs(f, q))]
        ELSE f[q]]

\* the directories at the paths of S get a new modification time
Touch(f, S) ==
    [q \in DOMAIN f |-> IF q \in S THEN [f[q] EXCEPT !.times = Now] ELSE f[q]]

\* p and everything below it
Subtree(f, p) == {q \in DOMAIN f : IsPrefix(p, q)}

\* a new entry e under the name p, in the directory parent(p)
Put(f, p, e) ==
    LET g == [q \in DOMAIN f \cup {p} |-> IF q = p THEN e ELSE f[q]]
    IN  Normal(Touch(g, {parent(p).val}))

\* the entry at p, with everything below it, leaves the directory parent(p)
Del(f, p) ==
    LET g == [q \in DOMAIN f \ Subtree(f, p) |-> f[q]]
    IN  Normal(Touch(g, {parent(p).val}))

\* mkdir(2), as fs::create_dir calls it: mode 0777 under the umask 022
create_dir(f, p) ==
    LET at(r) ==
            IF r.err # "" THEN Err(r.err, f)
            ELSE IF Exists(f, r.path) THEN Err("EEXIST", f)
            ELSE IF ~May(f, parent(r.path).val, "w") THEN Err("EACCES", f)
            ELSE Ok(Put(f, r.path, DirEntry(DirMode, Now, ProcUser)))
    IN  at(Resolve(f, p, FALSE))

\* fs::create_dir_all (std::fs::DirBuilder::create_dir_all)
RECURSIVE create_dir_all(_, _)
create_dir_all(f, p) ==
    IF p = <<>> THEN Ok(f)
    ELSE
      LET again(rp, r2) ==
              IF r2.err = "" \/ is_dir(rp.fs, p) THEN Ok(r2.fs) ELSE r2
          above(rp) ==
              IF rp.err # "" THEN rp ELSE again(rp, create_dir(rp.fs, p))
          first(r1) ==
              IF r1.err = "" THEN r1
              ELSE IF r1.err = "ENOENT"
              THEN IF ~parent(p).some
                   THEN Err("failed to create whole tree", f)
                   ELSE above(create_dir_all(f, parent(p).val))
              ELSE IF is_dir(f, p) THEN Ok(f)
              ELSE r1
      IN  first(create_dir(f, p))

\* unlink(2), as fs::remove_file calls it
remove_file(f, p) ==
    LET at(r) ==
            IF r.err # "" THEN Err(r.err, f)
            ELSE IF ~Exists(f, r.path) THEN Err("ENOENT", f)
            ELSE IF ~May(f, parent(r.path).val, "w") THEN Err("EACCES", f)
            ELSE IF f[r.path].kind = "dir" THEN Err("EISDIR", f)
            ELSE Ok(Del(f, r.path))
    IN  at(Resolve(f, p, FALSE))

\* The names a directory may hold, in the two orders readdir is modelled to
\* yield them in.  The order is the file system's own; of the directories
\* that are removed none holds more than two entries, and of any two names
\* either comes first in one of the orders.
ReaddirOrders ==
    {<<"d", "f", "g", "h", "l", "s", "x">>, <<"x", "s", "l", "h", "g", "f", "d">>}

\* std's remove_dir_all_recursive on the directory at d: open and read it
\* (step 0), remove its entries in readdir's order (step i for the i-th name:
\* unlinkat for what is no directory, itself for what is one), stop at the
\* first error, and at last rmdir it
RECURSIVE remove_dir_all_recursive(_, _, _, _)
remove_dir_all_recursive(f, d, order, i) ==
    IF i = 0
    THEN IF ~May(f, d, "r") THEN Err("EACCES", f)
         ELSE remove_dir_all_recursive(f, d, order, 1)
    ELSE IF i > Len(order)
    THEN IF ~May(f, parent(d).val, "w") THEN Err("EACCES", f)
         ELSE IF Subtree(f, d) # {d} THEN Err("ENOTEMPTY", f)
         ELSE Ok(Del(f, d))
    ELSE
      LET next(r) ==
              IF r.err # "" THEN r
              ELSE remove_dir_all_recursive(r.fs, d, order, i + 1)
          entry(c) ==
              IF ~Exists(f, c) THEN next(Ok(f))
              ELSE IF ~May(f, d, "x") THEN Err("EACCES", f)
              ELSE IF f[c].kind = "dir"
              THEN next(remove_dir_all_recursive(f, c, order, 0))
              ELSE IF ~May(f, d, "w") THEN Err("EACCES", f)
              ELSE next(Ok(Del(f, c)))
      IN  entry(d \o <<order[i]>>)

\* fs::remove_dir_all: a symbolic link is unlinked, never descended into
remove_dir_all(f, p, order) ==
    LET at(r) ==
            IF r.err # "" THEN Err(r.err, f)
            ELSE IF ~Exists(f, r.path) THEN Err("ENOENT", f)
            ELSE IF f[r.path].kind = "symlink" THEN remove_file(f, p)
            ELSE IF f[r.path].kind # "dir" THEN Err("ENOTDIR", f)
            ELSE remove_dir_all_recursive(f, r.path, order, 0)
    IN  at(Resolve(f, p, FALSE))

\* rename(2), as fs::rename calls it.  The kernel resolves the two parent
\* directories, looks the source up, refuses what is no directory when one
\* of the two paths is written with a separator at its end, refuses to move
\* an entry below itself or onto one of its own ancestors, and only then
\* tests access and the kinds of the two entries.
rename(f, from, to) ==
    LET moved(x, y, g) == Ok(Normal(Touch(g, {parent(x).val, parent(y).val})))
        move(x, y) ==
            moved(x, y,
                  [q \in ((DOMAIN f \ Subtree(f, x)) \ {y})
                              \cup {y \o SubSeq(q0, Len(x) + 1, Len(q0)) :
                                        q0 \in Subtree(f, x)} |->
                      IF IsPrefix(y, q)
                      THEN f[x \o SubSeq(q, Len(y) + 1, Len(q))]
                      ELSE f[q]])
        at(x, y) ==
            IF ~Exists(f, x) THEN Err("ENOENT", f)
            ELSE IF f[x].kind # "dir" /\ (HasSlash(from) \/ HasSlash(to))
            THEN Err("ENOTDIR", f)
            ELSE IF x # y /\ IsPrefix(x, y) THEN Err("EINVAL", f)
            ELSE IF x # y /\ IsPrefix(y, x) THEN Err("ENOTEMPTY", f)
            ELSE IF x = y THEN Ok(f)
            ELSE IF ~May(f, parent(x).val, "w") THEN Err("EACCES", f)
            ELSE IF ~May(f, parent(y).val, "w") THEN Err("EACCES", f)
            ELSE IF f[x].kind = "dir" /\ Exists(f, y) /\ f[y].kind # "dir"
            THEN Err("ENOTDIR", f)
            ELSE IF f[x].kind # "dir" /\ Exists(f, y) /\ f[y].kind = "dir"
            THEN Err("EISDIR", f)
            ELSE IF f[x].kind = "dir" /\ parent(x) # parent(y) /\ ~May(f, x, "w")
            THEN Err("EACCES", f)
            ELSE IF Exists(f, y) /\ Subtree(f, y) # {y} THEN Err("ENOTEMPTY", f)
            ELSE move(x, y)
        resolved(a, b) ==
            IF a.err # "" THEN Err(a.err, f)
            ELSE IF b.err # "" THEN Err(b.err, f)
            ELSE at(a.path, b.path)
    IN  resolved(Resolve(f, Components(from), FALSE),
                 Resolve(f, Components(to), FALSE))

\* symlink(2), as std::os::unix::fs::symlink calls it
symlink(f, target, linkpath) ==
    LET at(r) ==
            IF r.err # "" THEN Err(r.err, f)
            ELSE IF Exists(f, r.path) THEN Err("EEXIST", f)
            ELSE IF HasSlash(linkpath) THEN Err("ENOENT", f)
            ELSE IF ~May(f, parent(r.path).val, "w") THEN Err("EACCES", f)
            ELSE Ok(Put(f, r.path, LinkEntry(target, Now, ProcUser)))
    IN  at(Resolve(f, linkpath, FALSE))

\* fs::read_link
read_link(f, p) ==
    LET of(m) ==
            IF m.some /\ m.val.kind = "symlink" THEN Some(m.val.target) ELSE None
    IN  of(symlink_metadata(f, p))

\* fs::copy with the destination opened for appending instead of truncated
copy_append(f, from, to) ==
    LET onto(src, y) ==
            IF Exists(f, y) /\ f[y].kind = "dir" THEN Err("EISDIR", f)
            ELSE IF Exists(f, y) /\ ~May(f, y, "w") THEN Err("EACCES", f)
            ELSE IF Exists(f, y) /\ f[y].owner # ProcUser
            THEN Err("EPERM", [f EXCEPT ![y].times = Now])
            ELSE IF Exists(f, y)
            THEN Ok([f EXCEPT ![y].content = IF f[y].content = Empty THEN f[src].content
                                             ELSE IF f[y].content = "appended"
                                             THEN "appended twice"
                                             ELSE "appended",
                              ![y].mode = f[src].mode,
                              ![y].times = Now])
            ELSE IF HasSlash(to) THEN Err("EISDIR", f)
            ELSE IF ~May(f, parent(y).val, "w") THEN Err("EACCES", f)
            ELSE Ok(Put(f, y, FileEntry(f[src].content, f[src].mode, Now,
                                        ProcUser, 1)))
        opened(a, b) ==
            IF a.err # "" THEN Err(a.err, f)
            ELSE IF ~Exists(f, a.path) THEN Err("ENOENT", f)
            ELSE IF ~May(f, a.path, "r") THEN Err("EACCES", f)
            ELSE IF f[a.path].kind # "file" THEN Err("InvalidInput", f)
            ELSE IF b.err # "" THEN Err(b.err, f)
            ELSE onto(a.path, b.path)
    IN  opened(Resolve(f, from, TRUE), Resolve(f, to, TRUE))

\* fs::copy on unix: open the source for reading (following links), fail
\* unless it is a regular file; open the destination with
\* O_WRONLY|O_CREAT|O_TRUNC (following links), set the source's permission
\* bits on it (fchmod: the owner's right), copy the bytes.
\* Truncating comes before reading, so a file copied onto itself ends empty.
copy(f, from, to) ==
    LET onto(src, y) ==
            IF Exists(f, y) /\ f[y].kind = "dir" THEN Err("EISDIR", f)
            ELSE IF Exists(f, y) /\ ~May(f, y, "w") THEN Err("EACCES", f)
            ELSE IF Exists(f, y) /\ f[y].owner # ProcUser
            THEN Err("EPERM", [f EXCEPT ![y].content = Empty, ![y].times = Now])
            ELSE IF Exists(f, y)
            THEN Ok([f EXCEPT ![y].content = IF src = y THEN Empty ELSE f[src].content,
                              ![y].mode = f[src].mode,
                              ![y].times = Now])
            ELSE IF HasSlash(to) THEN Err("EISDIR", f)
            ELSE IF ~May(f, parent(y).val, "w") THEN Err("EACCES", f)
            ELSE Ok(Put(f, y, FileEntry(f[src].content, f[src].mode, Now,
                                        ProcUser, 1)))
        opened(a, b) ==
            IF a.err # "" THEN Err(a.err, f)
            ELSE IF ~Exists(f, a.path) THEN Err("ENOENT", f)
            ELSE IF ~May(f, a.path, "r") THEN Err("EACCES", f)
            ELSE IF f[a.path].kind # "file" THEN Err("InvalidInput", f)
            ELSE IF b.err # "" THEN Err(b.err, f)
            ELSE onto(a.path, b.path)
    IN  opened(Resolve(f, from, TRUE), Resolve(f, to, TRUE))

\* chmod(2), as fs::set_permissions calls it: follows links; the calling
\* process is unprivileged and may change only entries it owns
set_permissions(f, p, mode) ==
    LET at(r) ==
            IF r.err # "" THEN Err(r.err, f)
            ELSE IF ~Exists(f, r.path) THEN Err("ENOENT", f)
            ELSE IF f[r.path].owner # ProcUser THEN Err("EPERM", f)
            ELSE Ok([f EXCEPT ![r.path].mode = mode])
    IN  at(Resolve(f, p, TRUE))

\* filetime::set_file_times: follows links
set_file_times(f, p, times) ==
    LET at(r) ==
            IF r.err # "" THEN Err(r.err, f)
            ELSE IF ~Exists(f, r.path) THEN Err("ENOENT", f)
            ELSE IF f[r.path].owner # ProcUser THEN Err("EPERM", f)
            ELSE Ok([f EXCEPT ![r.path].times = times])
    IN  at(Resolve(f, p, TRUE))

\* libc::chown: follows links; an unprivileged process cannot give an
\* entry to another user
chown(f, p, owner) ==
    LET at(r) ==
            IF r.err # "" THEN Err(r.err, f)
            ELSE IF ~Exists(f, r.path) THEN Err("ENOENT", f)
            ELSE IF f[r.path].owner # ProcUser \/ owner # ProcUser
                 THEN Err("EPERM", f)
            ELSE Ok([f EXCEPT ![r.path].owner = owner])
    IN  at(Resolve(f, p, TRUE))

(***************************************************************************)
(* The handlers.  Each returns what handling leaves behind: the file       *)
(* system, the lines printed, the file-system calls made (with their       *)
(* errors) and the change_root calls made (with their results).            *)
(***************************************************************************)
Res(f, lines, cs, ms) == [fs |-> f, out |-> lines, calls |-> cs, mapped |-> ms]

Line(msg, paths) == [msg |-> msg, paths |-> paths]
Call(op, args, err) == [op |-> op, args |-> args, err |-> err]
Map(path) == [path |-> path, result |-> change_root(path)]

LineIf(cond, msg, paths) == IF cond THEN <<Line(msg, paths)>> ELSE <<>>

handle_watch_error(f) == Res(f, <<Line("Watch error", <<>>)>>, <<>>, <<>>)

handle_not_under_watch_error(path) == Line("is not under watch root", <<path>>)

handle_event_unknown(f, path) ==
    Res(f, <<Line("Unknown[unsupported]", <<path>>)>>, <<>>, <<>>)

handle_event_other(f, path) ==
    Res(f, <<Line("Other[unsupported]", <<path>>)>>, <<>>, <<>>)

handle_event_modify_other(f, path) ==
    Res(f, <<Line("Modify[unsupported][other]", <<path>>)>>, <<>>, <<>>)

handle_event_create_other(f, path) ==
    Res(f, <<Line("Created[unsupported][other]", <<path>>)>>, <<>>, <<>>)

\* handle_event_delete without the is_dir test: always remove_file
handle_event_delete_file_only(f, path, order) ==
    LET m == Map(path)
        new_target == m.result.val
        r == remove_file(f, new_target)
    IN  IF ~m.result.some
        THEN Res(f, <<Line("Deleted", <<path>>),
                      handle_not_under_watch_error(path)>>, <<>>, <<m>>)
        ELSE Res(r.fs,
                 <<Line("Deleted", <<path>>)>>
                     \o LineIf(r.err # "", "Failed to delete", <<new_target>>),
                 <<Call("remove_file", <<new_target>>, r.err)>>,
                 <<m>>)

\* order: the order readdir yields names in while remove_dir_all runs
handle_event_delete(f, path, order) ==
    LET m == Map(path)
        new_target == m.result.val
        dir == is_dir(f, new_target)
        r == IF dir THEN remove_dir_all(f, new_target, order)
             ELSE remove_file(f, new_target)
    IN  IF ~m.result.some
        THEN Res(f, <<Line("Deleted", <<path>>),
                      handle_not_under_watch_error(path)>>, <<>>, <<m>>)
        ELSE Res(r.fs,
                 <<Line("Deleted", <<path>>)>>
                     \o LineIf(r.err # "", "Failed to delete", <<new_target>>),
                 <<Call(IF dir THEN "remove_dir_all" ELSE "remove_file",
                        <<new_target>>, r.err)>>,
                 <<m>>)

\* handle_event_rename that keeps a new path it cannot remap, as
\* handle_event_create_symlink keeps a link target
handle_event_rename_keep_unmapped(f, path, new_path) ==
    LET m1 == Map(path)
        m2 == Map(new_path)
        original_target == m1.result.val
        new_target == IF m2.result.some THEN m2.result.val ELSE new_path
        r == rename(f, original_target, new_target)
        head == Line("Renamed", <<path, new_path>>)
    IN  IF ~m1.result.some
        THEN Res(f, <<head, handle_not_under_watch_error(path)>>, <<>>, <<m1>>)
        ELSE Res(r.fs,
                 <<head>> \o LineIf(r.err # "", "Failed to rename",
                                    <<original_target, new_target>>),
                 <<Call("rename", <<original_target, new_target>>, r.err)>>,
                 <<m1, m2>>)

\* handle_event_rename with the two endpoints swapped in the call
handle_event_rename_swapped(f, path, new_path) ==
    LET m1 == Map(path)
        m2 == Map(new_path)
        original_target == m1.result.val
        new_target == m2.result.val
        r == rename(f, new_target, original_target)
        head == Line("Renamed", <<path, new_path>>)
    IN  IF ~m1.result.some
        THEN Res(f, <<head, handle_not_under_watch_error(path)>>, <<>>, <<m1>>)
        ELSE IF ~m2.result.some
        THEN Res(f, <<head, handle_not_under_watch_error(new_path)>>, <<>>,
                 <<m1, m2>>)
        ELSE Res(r.fs,
                 <<head>> \o LineIf(r.err # "", "Failed to rename",
                                    <<new_target, original_target>>),
                 <<Call("rename", <<new_target, original_target>>, r.err)>>,
                 <<m1, m2>>)

handle_event_rename(f, path, new_path) ==
    LET m1 == Map(path)
        m2 == Map(new_path)
        original_target == m1.result.val
        new_target == m2.result.val
        r == rename(f, original_target, new_target)
        head == Line("Renamed", <<path, new_path>>)
    IN  IF ~m1.result.some
        THEN Res(f, <<head, handle_not_under_watch_error(path)>>, <<>>, <<m1>>)
        ELSE IF ~m2.result.some
        THEN Res(f, <<head, handle_not_under_watch_error(new_path)>>, <<>>,
                 <<m1, m2>>)
        ELSE Res(r.fs,
                 <<head>> \o LineIf(r.err # "", "Failed to rename",
                                    <<original_target, new_target>>),
                 <<Call("rename", <<original_target, new_target>>, r.err)>>,
                 <<m1, m2>>)

\* SyncMetadata reading the metadata of the mirrored path, not the source's
handle_event_metadata_from_mirror(f, path) ==
    LET m == Map(path)
        mirrored_path == m.result.val
        md == metadata(f, mirrored_path)
        r1 == set_permissions(f, mirrored_path, md.val.mode)
        r2 == set_file_times(r1.fs, mirrored_path, md.val.times)
        r3 == chown(r2.fs, mirrored_path, md.val.owner)
        head == Line("Modify[metadata]", <<path>>)
    IN  IF ~m.result.some
        THEN Res(f, <<head, handle_not_under_watch_error(path)>>, <<>>, <<m>>)
        ELSE IF ~md.some
        THEN Res(f, <<head, Line("Failed to read metadata", <<path>>)>>,
                 <<>>, <<m>>)
        ELSE Res(r3.fs,
                 <<head>>
                     \o LineIf(r1.err # "", "Failed to set permissions",
                               <<mirrored_path>>)
                     \o LineIf(r2.err # "", "Failed to set timestamps",
                               <<mirrored_path>>)
                     \o LineIf(r3.err # "", "Failed to set owner/group",
                               <<mirrored_path>>),
                 <<Call("set_permissions", <<mirrored_path>>, r1.err),
                   Call("set_file_times", <<mirrored_path>>, r2.err),
                   Call("chown", <<mirrored_path>>, r3.err)>>,
                 <<m>>)

\* SyncMetadata giving up at the first step that fails
handle_event_metadata_stop_on_error(f, path) ==
    LET m == Map(path)
        mirrored_path == m.result.val
        md == metadata(f, path)
        r1 == set_permissions(f, mirrored_path, md.val.mode)
        r2 == set_file_times(r1.fs, mirrored_path, md.val.times)
        r3 == chown(r2.fs, mirrored_path, md.val.owner)
        head == Line("Modify[metadata]", <<path>>)
        c1 == Call("set_permissions", <<mirrored_path>>, r1.err)
        c2 == Call("set_file_times", <<mirrored_path>>, r2.err)
        c3 == Call("chown", <<mirrored_path>>, r3.err)
    IN  IF ~m.result.some
        THEN Res(f, <<head, handle_not_under_watch_error(path)>>, <<>>, <<m>>)
        ELSE IF ~md.some
        THEN Res(f, <<head, Line("Failed to read metadata", <<path>>)>>,
                 <<>>, <<m>>)
        ELSE IF r1.err # ""
        THEN Res(r1.fs,
                 <<head, Line("Failed to set permissions", <<mirrored_path>>)>>,
                 <<c1>>, <<m>>)
        ELSE IF r2.err # ""
        THEN Res(r2.fs,
                 <<head, Line("Failed to set timestamps", <<mirrored_path>>)>>,
                 <<c1, c2>>, <<m>>)
        ELSE Res(r3.fs,
                 <<head>> \o LineIf(r3.err # "", "Failed to set owner/group",
                                    <<mirrored_path>>),
                 <<c1, c2, c3>>, <<m>>)

\* The chown step's CString conversion fails only on a path holding a NUL
\* byte, which no path here does.
handle_event_metadata(f, path) ==
    LET m == Map(path)
        mirrored_path == m.result.val
        md == metadata(f, path)
        r1 == set_permissions(f, mirrored_path, md.val.mode)
        r2 == set_file_times(r1.fs, mirrored_path, md.val.times)
        r3 == chown(r2.fs, mirrored_path, md.val.owner)
        head == Line("Modify[metadata]", <<path>>)
    IN  IF ~m.result.some
        THEN Res(f, <<head, handle_not_under_watch_error(path)>>, <<>>, <<m>>)
        ELSE IF ~md.some
        THEN Res(f, <<head, Line("Failed to read metadata", <<path>>)>>,
                 <<>>, <<m>>)
        ELSE Res(r3.fs,
                 <<head>>
                     \o LineIf(r1.err # "", "Failed to set permissions",
                               <<mirrored_path>>)
                     \o LineIf(r2.err # "", "Failed to set timestamps",
                               <<mirrored_path>>)
                     \o LineIf(r3.err # "", "Failed to set owner/group",
                               <<mirrored_path>>),
                 <<Call("set_permissions", <<mirrored_path>>, r1.err),
                   Call("set_file_times", <<mirrored_path>>, r2.err),
                   Call("chown", <<mirrored_path>>, r3.err)>>,
                 <<m>>)

\* CopyFile without the step that creates the missing parent directories
handle_event_data_no_parents(f, path) ==
    LET m == Map(path)
        mirrored_path == m.result.val
        r2 == copy(f, path, mirrored_path)
        head == Line("Data", <<path>>)
    IN  IF ~m.result.some
        THEN Res(f, <<head, handle_not_under_watch_error(path)>>, <<>>, <<m>>)
        ELSE Res(r2.fs,
                 <<head>> \o LineIf(r2.err # "", "Failed to copy data",
                                    <<path, mirrored_path>>),
                 <<Call("copy", <<path, mirrored_path>>, r2.err)>>,
                 <<m>>)

handle_event_data(f, path) ==
    LET m == Map(path)
        mirrored_path == m.result.val
        par == parent(mirrored_path)
        r1 == IF par.some THEN create_dir_all(f, par.val) ELSE Ok(f)
        c1 == IF par.some THEN <<Call("create_dir_all", <<par.val>>, r1.err)>>
              ELSE <<>>
        r2 == copy(r1.fs, path, mirrored_path)
        head == Line("Data", <<path>>)
    IN  IF ~m.result.some
        THEN Res(f, <<head, handle_not_under_watch_error(path)>>, <<>>, <<m>>)
        ELSE IF r1.err # ""
        THEN Res(r1.fs,
                 <<head, Line("Failed to create parent dirs", <<mirrored_path>>)>>,
                 c1, <<m>>)
        ELSE Res(r2.fs,
                 <<head>> \o LineIf(r2.err # "", "Failed to copy data",
                                    <<path, mirrored_path>>),
                 c1 \o <<Call("copy", <<path, mirrored_path>>, r2.err)>>,
                 <<m>>)

\* CreateSymlink keeping every target as it is, remapping none
handle_event_create_symlink_verbatim(f, path) ==
    LET m == Map(path)
        new_symlink_path == m.result.val
        original_target == read_link(f, path)
        new_target == original_target.val
        r == symlink(f, new_target, new_symlink_path)
        head == Line("Created[symlink]", <<path>>)
    IN  IF ~m.result.some
        THEN Res(f, <<head, handle_not_under_watch_error(path)>>, <<>>, <<m>>)
        ELSE IF ~original_target.some
        THEN Res(f, <<head, Line("Failed to read symlink", <<path>>)>>,
                 <<>>, <<m>>)
        ELSE Res(r.fs,
                 <<head>> \o LineIf(r.err # "", "Failed to create symlink",
                                    <<new_symlink_path, new_target>>),
                 <<Call("symlink", <<new_target, new_symlink_path>>, r.err)>>,
                 <<m>>)

handle_event_create_symlink(f, path) ==
    LET m == Map(path)
        new_symlink_path == m.result.val
        original_target == read_link(f, path)
        mt == Map(original_target.val)
        new_target == IF mt.result.some THEN mt.result.val
                      ELSE original_target.val
        r == symlink(f, new_target, new_symlink_path)
        head == Line("Created[symlink]", <<path>>)
    IN  IF ~m.result.some
        THEN Res(f, <<head, handle_not_under_watch_error(path)>>, <<>>, <<m>>)
        ELSE IF ~original_target.some
        THEN Res(f, <<head, Line("Failed to read symlink", <<path>>)>>,
                 <<>>, <<m>>)
        ELSE Res(r.fs,
                 <<head>> \o LineIf(r.err # "", "Failed to create symlink",
                                    <<new_symlink_path, new_target>>),
                 <<Call("symlink", <<new_target, new_symlink_path>>, r.err)>>,
                 <<m, mt>>)

handle_event_create_hardlink(f, path) ==
    Res(f, <<Line("Created[unsupported][hardlink]", <<path>>)>>, <<>>, <<>>)

handle_event_create_regularfile(f, path) ==
    Res(f, <<Line("Created[file]", <<path>>)>>, <<>>, <<>>)

\* CreateDir creating the missing ancestors too (fs::create_dir_all)
handle_event_create_dir_all(f, path) ==
    LET m == Map(path)
        new_path == m.result.val
        r == create_dir_all(f, new_path)
        head == Line("Created[dir]", <<path>>)
    IN  IF m.result.some
        THEN Res(r.fs,
                 <<head>> \o LineIf(r.err # "", "Failed to create dir",
                                    <<new_path>>),
                 <<Call("create_dir", <<new_path>>, r.err)>>, <<m>>)
        ELSE Res(f, <<head, handle_not_under_watch_error(path)>>, <<>>, <<m>>)

handle_event_create_dir(f, path) ==
    LET m == Map(path)
        new_path == m.result.val
        r == create_dir(f, new_path)
        head == Line("Created[dir]", <<path>>)
    IN  IF m.result.some
        THEN Res(r.fs,
                 <<head>> \o LineIf(r.err # "", "Failed to create dir",
                                    <<new_path>>),
                 <<Call("create_dir", <<new_path>>, r.err)>>, <<m>>)
        ELSE Res(f, <<head, handle_not_under_watch_error(path)>>, <<>>, <<m>>)

\* handle_event_create_file with the link-count test off by one
handle_event_create_file_off_by_one(f, path) ==
    LET meta == metadata(f, path)
    IN  IF ~meta.some
        THEN Res(f, <<Line("Failed to get metadata", <<path>>)>>, <<>>, <<>>)
        ELSE IF meta.val.nlink > 2
        THEN handle_event_create_hardlink(f, path)
        ELSE handle_event_create_regularfile(f, path)

handle_event_create_file(f, path) ==
    LET meta == metadata(f, path)
    IN  IF ~meta.some
        THEN Res(f, <<Line("Failed to get metadata", <<path>>)>>, <<>>, <<>>)
        ELSE IF meta.val.nlink > 1
        THEN handle_event_create_hardlink(f, path)
        ELSE handle_event_create_regularfile(f, path)

handle_event_create(f, path) ==
    IF is_symlink(f, path) THEN handle_event_create_symlink(f, path)
    ELSE IF is_file(f, path) THEN handle_event_create_file(f, path)
    ELSE IF is_dir(f, path) THEN handle_event_create_dir(f, path)
    ELSE handle_event_create_other(f, path)

(***************************************************************************)
(* Events, as notify delivers them: a kind and a list of paths.            *)
(***************************************************************************)
\* the kinds handle_event's match falls through on ("_ => {}") or ignores
SilentKinds == {"Access", "ModifyAny", "ModifyNameFrom",
                "ModifyMetadataPermissions", "ModifyDataContent"}

Kinds == {"Other", "Remove", "ModifyOther", "ModifyNameBoth",
          "ModifyMetadataAny", "ModifyDataAny", "Create", "Any"}
             \cup SilentKinds

NoItem == [type |-> "none", id |-> 0, kind |-> "", paths |-> <<>>]
EventItem(n, kind, paths) ==
    [type |-> "event", id |-> n, kind |-> kind, paths |-> paths]
ErrorItem(n) == [type |-> "error", id |-> n, kind |-> "", paths |-> <<>>]

\* the readdir orders that handling an event of this kind may meet
OrdersFor(kind) ==
    IF kind = "Remove" THEN ReaddirOrders
    ELSE {order \in ReaddirOrders : order[1] = "d"}

\* handle_event indexes paths[0] before it looks at the kind, and paths[1]
\* for a rename: an index out of range panics
Panics(kind, paths) ==
    Len(paths) = 0 \/ (kind = "ModifyNameBoth" /\ Len(paths) < 2)

\* order: the order readdir yields names in, which only a removal reads
handle_event(f, kind, paths, order) ==
    LET path == paths[1]
    IN  CASE kind = "Other" -> handle_event_other(f, path)
          [] kind = "Remove" -> handle_event_delete(f, path, order)
          [] kind = "ModifyOther" -> handle_event_modify_other(f, path)
          [] kind = "ModifyNameBoth" -> handle_event_rename(f, path, paths[2])
          [] kind = "ModifyMetadataAny" -> handle_event_metadata(f, path)
          [] kind = "ModifyDataAny" -> handle_event_data(f, path)
          [] kind = "Create" -> handle_event_create(f, path)
          [] kind \in SilentKinds -> Res(f, <<>>, <<>>, <<>>)
          [] OTHER -> handle_event_unknown(f, path)

(***************************************************************************)
(* The initial file system: the watched tree holds a directory d with a    *)
(* regular file d/f and a directory d/s, a file h of another user with a   *)
(* second hard link, and a symbolic link l; the output tree is empty or an *)
(* earlier mirror of the watched tree: one made before d/s was, one made   *)
(* when d and l were regular files, one made by another user, one in which *)
(* a directory cannot be searched.                                         *)
(***************************************************************************)
In(rel) == WatchRoot \o rel
Out(rel) == OutputRoot \o rel

\* what the watched tree's symbolic link may point at: a file or a
\* directory under the watch root, a file outside it, a relative path
LinkTargets == {In(<<"d", "f">>), In(<<"d">>), Outside, <<"d", "f">>}

BaseFS(target) ==
    LET dir == DirEntry(DirMode, "t_old", ProcUser)
    IN  (<<"/">> :> dir) @@ (<<"/", "test">> :> dir)
        @@ (WatchRoot :> dir) @@ (OutputRoot :> dir)
        @@ (Outside :> FileEntry("c3", "m644", "t_old", ProcUser, 1))
        @@ (In(<<"d">>) :> DirEntry("m700", "t_src", ProcUser))
        @@ (In(<<"d", "f">>) :> FileEntry("c1", "m600", "t_src", ProcUser, 1))
        @@ (In(<<"d", "s">>) :> DirEntry("m750", "t_src", ProcUser))
        @@ (In(<<"h">>) :> FileEntry("c2", "m600", "t_src", "u_other", 2))
        @@ (In(<<"l">>) :> LinkEntry(target, "t_src", ProcUser))

\* an earlier mirror, whose file content has since drifted
Mirror(target) ==
    (Out(<<"d">>) :> DirEntry(DirMode, "t_old", ProcUser))
    @@ (Out(<<"d", "f">>) :> FileEntry("c0", "m644", "t_old", ProcUser, 1))
    @@ (Out(<<"h">>) :> FileEntry("c0", "m644", "t_old", ProcUser, 1))
    @@ (Out(<<"l">>) :> LinkEntry(IF change_root(target).some
                                  THEN change_root(target).val ELSE target,
                                  "t_old", ProcUser))

\* a mirror from the time when d and l were regular files
Stale ==
    (Out(<<"d">>) :> FileEntry("c0", "m644", "t_old", ProcUser, 1))
    @@ (Out(<<"l">>) :> FileEntry("c0", "m644", "t_old", ProcUser, 1))

\* a mirror that another user has made: the process may read it and search
\* it, and change nothing in it
Foreign ==
    (Out(<<"d">>) :> DirEntry(DirMode, "t_old", "u_other"))
    @@ (Out(<<"d", "f">>) :> FileEntry("c0", "m644", "t_old", "u_other", 1))

\* a mirror in which the directory d/s, with a file in it, has been given
\* the mode of a regular file: the process may list it, never search it
Locked ==
    (Out(<<"d">>) :> DirEntry(DirMode, "t_old", ProcUser))
    @@ (Out(<<"d", "f">>) :> FileEntry("c0", "m644", "t_old", ProcUser, 1))
    @@ (Out(<<"d", "s">>) :> DirEntry("m600", "t_old", ProcUser))
    @@ (Out(<<"d", "s", "f">>) :> FileEntry("c0", "m644", "t_old", ProcUser, 1))

Trees == {BaseFS(t) : t \in LinkTargets}
             \cup {Mirror(t) @@ BaseFS(t) : t \in LinkTargets}
             \cup {m @@ BaseFS(Outside) : m \in {Stale, Foreign, Locked}}

InitFS == {Normal(t) : t \in Trees}

\* the paths events carry: the watch root, entries of the watched tree, a
\* name with no entry, and a path outside the watch root
EventPaths == {WatchRoot, In(<<"d">>), In(<<"d", "f">>), In(<<"d", "s">>),
               In(<<"h">>), In(<<"l">>), In(<<"g">>), Outside}

\* an event carries one path, a rename two; notify also sends events that
\* carry no path (the rescan event after a queue overflow), and a rename
\* may come with one path only
Events ==
    {[kind |-> k, paths |-> <<p>>] : k \in Kinds \ {"ModifyNameBoth"}, p \in EventPaths}
        \cup {[kind |-> "ModifyNameBoth", paths |-> <<p, q>>] :
                  p \in EventPaths, q \in EventPaths}
        \cup {[kind |-> "ModifyNameBoth", paths |-> <<p>>] : p \in EventPaths}
        \cup {[kind |-> k, paths |-> <<>>] : k \in {"Other", "ModifyNameBoth"}}

\* the items the buffered channel is exercised with: one event for every
\* way handling can fail, and one that succeeds
LoopEvents ==
    {[kind |-> "Create", paths |-> <<In(<<"d">>)>>],
     [kind |-> "ModifyDataAny", paths |-> <<Outside>>],
     [kind |-> "ModifyMetadataAny", paths |-> <<In(<<"g">>)>>],
     [kind |-> "Remove", paths |-> <<In(<<"g">>)>>],
     [kind |-> "Any", paths |-> <<In(<<"d">>)>>],
     [kind |-> "Other", paths |-> <<In(<<"d">>)>>],
     [kind |-> "Other", paths |-> <<>>]}

\* the key utility is a program of its own: the daemon never runs it
NoKeyRun == [prog |-> "none", pc |-> "idle"]

Init ==
    /\ fs \in InitFS
    /\ chan = <<>>
    /\ sent = 0
    /\ closed = FALSE
    /\ pc = "start"
    /\ handled = 0
    /\ last = NoItem
    /\ pre = fs
    /\ out = <<>>
    /\ calls = <<>>
    /\ mapped = <<>>
    /\ keyrun = NoKeyRun

(***************************************************************************)
(* main: set-up, then the loop over the channel.                           *)
(***************************************************************************)
\* Watcher::new or fs::canonicalize fails: main returns the error
SetupFails ==
    /\ pc = "start"
    /\ pc' = "failed"
    /\ UNCHANGED <<fs, chan, sent, closed, handled, last, pre, out, calls, mapped,
                 keyrun>>

\* watcher.watch fails: main prints and returns Ok
WatchFails ==
    /\ pc = "start"
    /\ pc' = "done"
    /\ out' = <<Line("Failed to watch", <<WatchRoot>>)>>
    /\ UNCHANGED <<fs, chan, sent, closed, handled, last, pre, calls, mapped,
                 keyrun>>

WatchOk ==
    /\ pc = "start"
    /\ pc' = "loop"
    /\ out' = <<Line("Watching", <<WatchRoot>>)>>
    /\ UNCHANGED <<fs, chan, sent, closed, handled, last, pre, calls, mapped,
                 keyrun>>

\* the watcher's thread sends an item, the most-th of the run at most
Send(item, most) ==
    /\ pc = "loop"
    /\ ~closed
    /\ sent < most
    /\ Len(chan) < MaxQueue
    /\ chan' = Append(chan, item)
    /\ sent' = sent + 1
    /\ UNCHANGED <<fs, closed, pc, handled, last, pre, out, calls, mapped,
                 keyrun>>

SendEvent ==
    \E e \in LoopEvents : Send(EventItem(sent + 1, e.kind, e.paths), MaxEvents)

SendError == Send(ErrorItem(sent + 1), MaxEvents)

\* the sending side is dropped
Close ==
    /\ pc = "loop"
    /\ ~closed
    /\ closed' = TRUE
    /\ UNCHANGED <<fs, chan, sent, pc, handled, last, pre, out, calls, mapped,
                 keyrun>>

\* rx's iterator ends: the channel is empty and closed
Finish ==
    /\ pc = "loop"
    /\ closed
    /\ chan = <<>>
    /\ pc' = "done"
    /\ UNCHANGED <<fs, chan, sent, closed, handled, last, pre, out, calls, mapped,
                 keyrun>>

\* a receive that takes the newest item instead of the oldest
recv_newest(c) == c[Len(c)]

\* the item the loop takes next from the channel holding c
recv(c) == Head(c)

\* one iteration of the loop over a channel holding c
Take(c, item) ==
    /\ pc = "loop"
    /\ c # <<>>
    /\ item = recv(c)
    /\ chan' = Tail(c)
    /\ handled' = handled + 1
    /\ last' = item
    /\ pre' = fs
    /\ UNCHANGED <<closed, keyrun>>

Leave(r) ==
    /\ fs' = r.fs
    /\ out' = r.out
    /\ calls' = r.calls
    /\ mapped' = r.mapped
    /\ pc' = pc

Received(c) == {recv(c) : x \in {1} \cap DOMAIN c}

ErrorFrom(c) ==
    \E item \in Received(c) :
        /\ Take(c, item)
        /\ item.type = "error"
        /\ Leave(handle_watch_error(fs))

\* the index out of range aborts the process
PanicFrom(c) ==
    \E item \in Received(c) :
        /\ Take(c, item)
        /\ item.type = "event"
        /\ Panics(item.kind, item.paths)
        /\ pc' = "panicked"
        /\ out' = <<Line("panicked", <<>>)>>
        /\ calls' = <<>>
        /\ mapped' = <<>>
        /\ fs' = fs

HandleFrom(c, kinds) ==
    \E item \in Received(c) :
        /\ Take(c, item)
        /\ item.type = "event"
        /\ item.kind \in kinds
        /\ ~Panics(item.kind, item.paths)
        /\ \E order \in OrdersFor(item.kind) :
               Leave(handle_event(fs, item.kind, item.paths, order))

(***************************************************************************)
(* LoopSpec: the watcher sends into the channel while the loop runs, and   *)
(* the loop takes the items one by one; the events sent are LoopEvents.    *)
(***************************************************************************)
HandleError == ErrorFrom(chan) /\ UNCHANGED sent
HandlePanic == PanicFrom(chan) /\ UNCHANGED sent
HandleOther == HandleFrom(chan, {"Other"}) /\ UNCHANGED sent
HandleRemove == HandleFrom(chan, {"Remove"}) /\ UNCHANGED sent
HandleMetadata == HandleFrom(chan, {"ModifyMetadataAny"}) /\ UNCHANGED sent
HandleData == HandleFrom(chan, {"ModifyDataAny"}) /\ UNCHANGED sent
HandleCreate == HandleFrom(chan, {"Create"}) /\ UNCHANGED sent
HandleUnknown == HandleFrom(chan, {"Any"}) /\ UNCHANGED sent

LoopNext ==
    \/ SetupFails
    \/ WatchFails
    \/ WatchOk
    \/ SendEvent
    \/ SendError
    \/ Close
    \/ Finish
    \/ HandleError
    \/ HandlePanic
    \/ HandleOther
    \/ HandleRemove
    \/ HandleMetadata
    \/ HandleData
    \/ HandleCreate
    \/ HandleUnknown

LoopSpec == Init /\ [][LoopNext]_vars

(***************************************************************************)
(* Spec: the same program, with the watcher sending events of every kind   *)
(* with every list of paths.                                               *)
(***************************************************************************)
Arrive ==
    \E e \in Events : Send(EventItem(sent + 1, e.kind, e.paths), MaxArrivals)

ArriveError == Send(ErrorItem(sent + 1), MaxArrivals)

HandleModifyOther == HandleFrom(chan, {"ModifyOther"}) /\ UNCHANGED sent
HandleRename == HandleFrom(chan, {"ModifyNameBoth"}) /\ UNCHANGED sent
HandleIgnored == HandleFrom(chan, SilentKinds) /\ UNCHANGED sent

Next ==
    \/ SetupFails
    \/ WatchFails
    \/ WatchOk
    \/ Arrive
    \/ ArriveError
    \/ Close
    \/ Finish
    \/ HandleError
    \/ HandlePanic
    \/ HandleOther
    \/ HandleRemove
    \/ HandleModifyOther
    \/ HandleRename
    \/ HandleMetadata
    \/ HandleData
    \/ HandleCreate
    \/ HandleIgnored
    \/ HandleUnknown

Spec == Init /\ [][Next]_vars

(***************************************************************************)
(* The key utility: src/src/keys.rs (main), and the two programs           *)
(* src/src/bin/keygen.rs and src/src/bin/p2ptest.rs.  The three functions  *)
(* of rustsync::keys the two programs call (test_rustsync_dir,             *)
(* save_keypair, load_keypair) are in no source file; they are taken from  *)
(* the interface the specification gives for the identity utility.         *)
(* A permission mode is the number of its nine bits.                       *)
(***************************************************************************)
\* bitwise and of two modes
RECURSIVE BitAnd(_, _)
BitAnd(a, b) ==
    IF a = 0 \/ b = 0 THEN 0
    ELSE (a % 2) * (b % 2) + 2 * BitAnd(a \div 2, b \div 2)

\* 0o077: the group and other bits, which the key directory must not have
GroupOther == 63
\* 0o600 and 0o644: the modes main asks write_key for
PrivateMode == 384
PublicMode == 420
\* 0o666: the mode fs::write creates a file with, before the umask
CreateMode == 438
\* 0o300 and 0o100: what the owner needs on a directory to create a file in
\* it, and to reach a file in it; 0o400 and 0o200: what the owner needs on a
\* file to read it, and to open it for writing
OwnerWriteSearch == 192
OwnerSearch == 64
OwnerRead == 256
OwnerWrite == 128
\* every mode
Modes == 0..511
\* the process's file mode creation mask: 0o022, 0o027, 0o077 or none
Umasks == {18, 23, 63, 0}

NoFile == [exists |-> FALSE, mode |-> 0, content |-> "none"]
KeyFile(mode, content) == [exists |-> TRUE, mode |-> mode, content |-> content]
NoDir == [exists |-> FALSE, mode |-> 0]
KeyDir(mode) == [exists |-> TRUE, mode |-> mode]

\* the check testing the other bits alone (0o007) and not the group bits
verify_other_only(dir) ==
    IF ~dir.exists THEN "error"
    ELSE IF BitAnd(dir.mode, 7) > 0 THEN "exit"
    ELSE "ok"

\* the check main makes first: "error" when the directory's metadata cannot
\* be read, "exit" when the directory has a group or other bit, else "ok"
verify(dir) ==
    IF ~dir.exists THEN "error"
    ELSE IF BitAnd(dir.mode, GroupOther) > 0 THEN "exit"
    ELSE "ok"

\* rustsync::keys::test_rustsync_dir: rejects a directory with group or
\* other access
test_rustsync_dir(dir) ==
    IF ~dir.exists \/ BitAnd(dir.mode, GroupOther) > 0 THEN "error" ELSE "ok"

\* fs::write creating the file with the wanted mode at once
fs_write_with_mode(dir, umask, file, data, mode) ==
    IF ~dir.exists THEN [err |-> "ENOENT", file |-> file]
    ELSE IF BitAnd(dir.mode, OwnerSearch) = 0
    THEN [err |-> "EACCES", file |-> file]
    ELSE IF file.exists
    THEN IF BitAnd(file.mode, OwnerWrite) = 0
         THEN [err |-> "EACCES", file |-> file]
         ELSE [err |-> "", file |-> KeyFile(mode, data)]
    ELSE IF BitAnd(dir.mode, OwnerWriteSearch) # OwnerWriteSearch
    THEN [err |-> "EACCES", file |-> file]
    ELSE [err |-> "", file |-> KeyFile(mode, data)]

\* fs::write: open with O_WRONLY|O_CREAT|O_TRUNC, then write the bytes.  The
\* directory must let the owner search it; a file that is there must let the
\* owner write it, and is truncated with its mode kept; a file that is not
\* there is created (mode 0o666 less the umask), which needs write
\* permission on the directory.  The name is new with every key.
fs_write(dir, umask, file, data, mode) ==
    IF ~dir.exists THEN [err |-> "ENOENT", file |-> file]
    ELSE IF BitAnd(dir.mode, OwnerSearch) = 0
    THEN [err |-> "EACCES", file |-> file]
    ELSE IF file.exists
    THEN IF BitAnd(file.mode, OwnerWrite) = 0
         THEN [err |-> "EACCES", file |-> file]
         ELSE [err |-> "", file |-> KeyFile(file.mode, data)]
    ELSE IF BitAnd(dir.mode, OwnerWriteSearch) # OwnerWriteSearch
    THEN [err |-> "EACCES", file |-> file]
    ELSE [err |-> "",
          file |-> KeyFile(BitAnd(CreateMode, 511 - umask), data)]

\* fs::read of a key file: the directory is searched before the file is
\* looked up in it
fs_read(dir, file) ==
    IF ~dir.exists THEN "ENOENT"
    ELSE IF BitAnd(dir.mode, OwnerSearch) = 0 THEN "EACCES"
    ELSE IF ~file.exists THEN "ENOENT"
    ELSE IF BitAnd(file.mode, OwnerRead) = 0 THEN "EACCES"
    ELSE ""

\* where a run starts: keys.rs and keygen.rs write keys under a name that is
\* new, p2ptest.rs loads keys an earlier run left, or finds none
KeyRun(prog, dir, umask, private, public) ==
    [prog |-> prog, pc |-> IF prog = "keys" THEN "verify" ELSE "test_dir",
     dir |-> dir, umask |-> umask, peer |-> FALSE,
     private |-> private, public |-> public, log |-> <<>>]

KeyDirs == {NoDir} \cup {KeyDir(m) : m \in Modes}

KeyRuns ==
    {KeyRun(g, d, u, NoFile, NoFile) :
         g \in {"keys", "keygen", "p2ptest"}, d \in KeyDirs, u \in Umasks}
        \cup {KeyRun("p2ptest", d, u, KeyFile(PrivateMode, "private key"),
                      KeyFile(PublicMode, "public key")) :
                  d \in KeyDirs, u \in Umasks}

KeyInit ==
    /\ fs = BaseFS(Outside)
    /\ chan = <<>>
    /\ sent = 0
    /\ closed = FALSE
    /\ pc = "start"
    /\ handled = 0
    /\ last = NoItem
    /\ pre = fs
    /\ out = <<>>
    /\ calls = <<>>
    /\ mapped = <<>>
    /\ keyrun \in KeyRuns

Daemon == <<fs, chan, sent, closed, pc, handled, last, pre, out, calls, mapped>>

\* the run goes to another position, with a step added to its log
Step(to, what) ==
    [keyrun EXCEPT !.pc = to, !.log = Append(keyrun.log, what)]

\* keys.rs main, lines 81-91
Verify ==
    /\ keyrun.pc = "verify"
    /\ keyrun' = Step(CASE verify(keyrun.dir) = "ok" -> "generate"
                        [] verify(keyrun.dir) = "exit" -> "exit"
                        [] OTHER -> "error",
                      "verify")
    /\ UNCHANGED Daemon

\* keys.rs main, lines 93-94: generate_ed25519
Generate ==
    /\ keyrun.pc = "generate"
    /\ keyrun.prog = "keys"
    /\ keyrun' = [Step("write_private", "generate") EXCEPT !.peer = TRUE]
    /\ UNCHANGED Daemon

\* write_key, line 67, for the private key and then for the public key
WriteKeyWrite ==
    \/ /\ keyrun.pc = "write_private"
       /\ LET r == fs_write(keyrun.dir, keyrun.umask, keyrun.private,
                            "private key", PrivateMode)
          IN  keyrun' = [Step(IF r.err = "" THEN "chmod_private" ELSE "error",
                              "write private")
                             EXCEPT !.private = r.file]
       /\ UNCHANGED Daemon
    \/ /\ keyrun.pc = "write_public"
       /\ LET r == fs_write(keyrun.dir, keyrun.umask, keyrun.public,
                            "public key", PublicMode)
          IN  keyrun' = [Step(IF r.err = "" THEN "chmod_public" ELSE "error",
                              "write public")
                             EXCEPT !.public = r.file]
       /\ UNCHANGED Daemon

\* write_key, line 68: the process owns the file it has just written
WriteKeySetPermissions ==
    \/ /\ keyrun.pc = "chmod_private"
       /\ keyrun' = [Step("write_public", "chmod private")
                         EXCEPT !.private.mode = PrivateMode]
       /\ UNCHANGED Daemon
    \/ /\ keyrun.pc = "chmod_public"
       /\ keyrun' = [Step("load", "chmod public")
                         EXCEPT !.public.mode = PublicMode]
       /\ UNCHANGED Daemon

\* keys.rs main, lines 99-104: load_ed25519 reads the private key back; its
\* result is printed, not returned
Load ==
    /\ keyrun.pc = "load"
    /\ keyrun.prog = "keys"
    /\ keyrun' = Step("done",
                      IF fs_read(keyrun.dir, keyrun.private) = ""
                      THEN "read private" ELSE "read private failed")
    /\ UNCHANGED Daemon

\* keygen.rs line 18, p2ptest.rs line 19
TestDir ==
    /\ keyrun.pc = "test_dir"
    /\ keyrun' = Step(IF test_rustsync_dir(keyrun.dir) = "error" THEN "error"
                      ELSE IF keyrun.prog = "keygen" THEN "generate"
                      ELSE "load",
                      "verify")
    /\ UNCHANGED Daemon

\* keygen.rs lines 20-21
KeygenGenerate ==
    /\ keyrun.pc = "generate"
    /\ keyrun.prog = "keygen"
    /\ keyrun' = [Step("save", "generate") EXCEPT !.peer = TRUE]
    /\ UNCHANGED Daemon

\* keygen.rs line 23: rustsync::keys::save_keypair leaves the private key
\* readable by the owner only and the public key world-readable
SaveKeypair ==
    /\ keyrun.pc = "save"
    /\ LET r == fs_write_with_mode(keyrun.dir, keyrun.umask, keyrun.private,
                                   "private key", PrivateMode)
           w == fs_write_with_mode(keyrun.dir, keyrun.umask, keyrun.public,
                                   "public key", PublicMode)
       IN  keyrun' =
               IF r.err # "" THEN Step("error", "write private")
               ELSE [keyrun EXCEPT !.pc = "load",
                                   !.private = r.file,
                                   !.public = w.file,
                                   !.log = keyrun.log
                                       \o <<"write private", "write public">>]
    /\ UNCHANGED Daemon

\* keygen.rs line 27, p2ptest.rs line 21: rustsync::keys::load_keypair
LoadKeypair ==
    /\ keyrun.pc = "load"
    /\ keyrun.prog \in {"keygen", "p2ptest"}
    /\ keyrun' = IF fs_read(keyrun.dir, keyrun.private) = ""
                 THEN Step("done", "read private")
                 ELSE Step("error", "read private failed")
    /\ UNCHANGED Daemon

KeyNext ==
    \/ Verify
    \/ Generate
    \/ WriteKeyWrite
    \/ WriteKeySetPermissions
    \/ Load
    \/ TestDir
    \/ KeygenGenerate
    \/ SaveKeypair
    \/ LoadKeypair

KeySpec == KeyInit /\ [][KeyNext]_vars

(***************************************************************************)
(* Vocabulary of the properties.                                           *)
(***************************************************************************)
\* p has the watch root as a prefix, stated component by component
UnderWatch(p) ==
    /\ Len(p) >= Len(WatchRoot)
    /\ \A i \in 1..Len(WatchRoot) : p[i] = WatchRoot[i]

\* the output root followed by what p has after the watch root
Mirrored(p) ==
    [i \in 1..(Len(p) - Len(WatchRoot) + Len(OutputRoot)) |->
        IF i <= Len(OutputRoot) THEN OutputRoot[i]
        ELSE p[i - Len(OutputRoot) + Len(WatchRoot)]]

\* the mirrored path as a handler writes it in its calls and lines: the
\* mirror of the watch root itself is written with a separator at its end
MirroredPath(p) ==
    IF Len(p) = Len(WatchRoot) THEN Mirrored(p) \o <<"">> ELSE Mirrored(p)

UnderOutput(p) ==
    /\ Len(p) >= Len(OutputRoot)
    /\ \A i \in 1..Len(OutputRoot) : p[i] = OutputRoot[i]

\* the last item was an event of this kind and its handler returned
Handled(kind) == last.type = "event" /\ last.kind = kind /\ pc # "panicked"

\* the entry at p differs between two file systems
Differs(f, g, p) ==
    \/ (p \in DOMAIN f) # (p \in DOMAIN g)
    \/ (p \in DOMAIN f /\ p \in DOMAIN g /\ f[p] # g[p])

Changed == {p \in DOMAIN fs \cup DOMAIN pre : Differs(fs, pre, p)}

Reported(msg, paths) == \E i \in DOMAIN out : out[i] = Line(msg, paths)

Called(op) == \E i \in DOMAIN calls : calls[i].op = op

\* q is p or lies below p
Below(p, q) == Len(q) >= Len(p) /\ \A i \in 1..Len(p) : q[i] = p[i]

\* What adding an entry to the directory at d, or removing one from it,
\* does to the directory itself: a new modification time, and as many links
\* more (up) or fewer (down) as sub-directories came or went; nothing else.
Touched(d, up, down) ==
    /\ d \in DOMAIN fs /\ d \in DOMAIN pre
    /\ fs[d].kind = "dir"
    /\ fs[d].times = Now
    /\ fs[d].nlink + down = pre[d].nlink + up
    /\ [fs[d] EXCEPT !.times = Now, !.nlink = 0]
           = [pre[d] EXCEPT !.times = Now, !.nlink = 0]

\* 1 for a directory, 0 for anything else
DirCount(e) == IF e.kind = "dir" THEN 1 ELSE 0

\* the place the entry at p is stored at, symbolic links followed
EntryAt(f, p) == Resolve(f, p, TRUE).path

\* the process may look names up in the directory that is to hold p, and
\* add names to it and take names from it: p's parent is a directory the
\* process can reach, search and write
MayChangeParent(f, p) ==
    /\ is_dir(f, parent(p).val)
    /\ May(f, EntryAt(f, parent(p).val), "x")
    /\ May(f, EntryAt(f, parent(p).val), "w")

(***************************************************************************)
(* C1.  change_root: a path that has the watch root as a prefix maps to    *)
(* the output root joined with the path's remainder; any other path maps   *)
(* to None.  Checked on every change_root call a handler makes.            *)
(***************************************************************************)
C1_ChangeRoot ==
    \A i \in DOMAIN mapped :
        IF UnderWatch(mapped[i].path)
        THEN mapped[i].result = Some(MirroredPath(mapped[i].path))
        ELSE mapped[i].result = None

\* a rename whose first path is under the watch root and whose second is not
C1_Witness ==
    /\ Handled("ModifyNameBoth")
    /\ Len(mapped) = 2
    /\ UnderWatch(mapped[1].path) /\ Len(mapped[1].path) > Len(WatchRoot)
    /\ ~UnderWatch(mapped[2].path)

(***************************************************************************)
(* C2.  No handler mutates an entry outside the output root: every entry   *)
(* that differs after an event was handled lies under the output root.     *)
(* The code breaks this: fs::copy, set_permissions, set_file_times and     *)
(* chown follow a symbolic link at the mirrored path, and a link whose     *)
(* target is not under the watch root is mirrored with its target as is.   *)
(***************************************************************************)
C2_NoMutationOutsideOutputRoot ==
    last.type = "event" => \A p \in Changed : UnderOutput(p)

(***************************************************************************)
(* C3.  An event that carries a path not under the watch root leaves the   *)
(* file system unchanged and prints the "not under watch root" line for    *)
(* such a path.  The code prints no such line for the kinds whose handlers *)
(* never call change_root.                                                 *)
(***************************************************************************)
C3_OutOfRootReported ==
    \A k \in {"Create", "ModifyDataAny", "ModifyMetadataAny", "ModifyNameBoth",
              "Remove", "Other", "Any"} :
        (Handled(k) /\ \E i \in DOMAIN last.paths : ~UnderWatch(last.paths[i]))
            => /\ fs = pre
               /\ \E i \in DOMAIN last.paths :
                      /\ ~UnderWatch(last.paths[i])
                      /\ Reported("is not under watch root", <<last.paths[i]>>)

(***************************************************************************)
(* C4.  The loop stops only when the channel is closed and drained, or     *)
(* when the watch could not be registered; handling an item never stops    *)
(* it.  The code breaks this: an event that carries no path (or a rename   *)
(* with one path) panics in handle_event and the process dies.             *)
(***************************************************************************)
C4_LoopStopsOnlyOnClose ==
    pc \notin {"start", "loop", "failed"}
        => /\ pc = "done"
           /\ \/ closed /\ chan = <<>> /\ handled = sent
              \/ sent = 0 /\ out = <<Line("Failed to watch", <<WatchRoot>>)>>

(***************************************************************************)
(* C5.  Items are taken from the channel once each and in the order they   *)
(* were sent: the item handled last is the handled-th item sent, and the   *)
(* items still waiting are the next ones, in order.                        *)
(***************************************************************************)
C5_InOrderOnce ==
    /\ handled + Len(chan) = sent
    /\ last.type # "none" => last.id = handled
    /\ \A i \in DOMAIN chan : chan[i].id = handled + i

\* an item has been handled while a later one was waiting behind it
C5_Witness == handled >= 1 /\ Len(chan) >= 1 /\ sent = handled + Len(chan)

(***************************************************************************)
(* C6.  After a Create event for a regular file with one link under the    *)
(* watch root, the mirrored path holds a file with the same content.       *)
(* The code breaks this: handle_event_create_regularfile only prints.      *)
(***************************************************************************)
C6_CreateCopiesFile ==
    (/\ Handled("Create")
     /\ UnderWatch(last.paths[1])
     /\ last.paths[1] \in DOMAIN pre
     /\ pre[last.paths[1]].kind = "file"
     /\ pre[last.paths[1]].nlink = 1)
        => /\ Mirrored(last.paths[1]) \in DOMAIN fs
           /\ fs[Mirrored(last.paths[1])].kind = "file"
           /\ fs[Mirrored(last.paths[1])].content = pre[last.paths[1]].content

(***************************************************************************)
(* C7.  A rename is attempted only when both paths remap: the rename call  *)
(* gets the two mirrored paths, and when either path is not under the      *)
(* watch root no file-system call is made, nothing changes, and the first  *)
(* path that failed to remap is reported.                                  *)
(***************************************************************************)
C7_RenameNeedsBothEndpoints ==
    Handled("ModifyNameBoth") =>
        LET old == last.paths[1]
            new == last.paths[2]
        IN  /\ \A i \in DOMAIN calls :
                   /\ calls[i].op = "rename"
                   /\ UnderWatch(old) /\ UnderWatch(new)
                   /\ calls[i].args = <<MirroredPath(old), MirroredPath(new)>>
            /\ (~UnderWatch(old) \/ ~UnderWatch(new))
                   => /\ calls = <<>>
                      /\ fs = pre
                      /\ Reported("is not under watch root",
                                  <<IF UnderWatch(old) THEN new ELSE old>>)

\* a one-sided rename: the old path is mirrored and present, the new path
\* is outside the watch root
C7_Witness ==
    /\ Handled("ModifyNameBoth")
    /\ UnderWatch(last.paths[1])
    /\ Mirrored(last.paths[1]) \in DOMAIN pre
    /\ ~UnderWatch(last.paths[2])
    /\ Reported("is not under watch root", <<last.paths[2]>>)

(***************************************************************************)
(* C8.  As claimed: a rename event from x to y, both under the watch root, *)
(* with an entry at the mirrored x, always moves that entry and its        *)
(* subtree to the mirrored y: nothing is left at x, y holds exactly what x *)
(* held, every other entry is unchanged.                                   *)
(* fs::rename can fail (y is a non-empty directory, y is a file and x a    *)
(* directory or the reverse, y lies inside x, the directory y would be     *)
(* created in is missing or may not be written), and a rename that         *)
(* succeeds gives the directories that hold x and y a new modification     *)
(* time and link count.                                                    *)
(***************************************************************************)
RenameCase ==
    /\ Handled("ModifyNameBoth")
    /\ UnderWatch(last.paths[1])
    /\ UnderWatch(last.paths[2])
    /\ last.paths[1] # last.paths[2]
    /\ Mirrored(last.paths[1]) \in DOMAIN pre

\* dirs: the directories that may come out of the move with a new
\* modification time and link count
RenameMoved(x, y, dirs) ==
    LET To(q) == y \o SubSeq(q, Len(x) + 1, Len(q))
    IN  /\ \A q \in DOMAIN fs : ~Below(x, q)
        /\ \A q \in DOMAIN pre :
               Below(x, q) => To(q) \in DOMAIN fs /\ fs[To(q)] = pre[q]
        /\ \A q \in DOMAIN fs :
               Below(y, q) => \E q0 \in DOMAIN pre : Below(x, q0) /\ To(q0) = q
        /\ \A q \in DOMAIN fs \cup DOMAIN pre :
               (~Below(x, q) /\ ~Below(y, q)) =>
                   \/ ~Differs(fs, pre, q)
                   \/ /\ q \in dirs
                      /\ \E up, down \in 0..1 : Touched(q, up, down)

C8_RenameAlwaysMoves ==
    RenameCase =>
        RenameMoved(Mirrored(last.paths[1]), Mirrored(last.paths[2]), {})

(***************************************************************************)
(* C8, amended.  The handler makes exactly one call, the rename of the     *)
(* mirrored x to the mirrored y.  The call fails exactly when the move is  *)
(* refused: y lies inside x or is an ancestor of x; y is the output root   *)
(* itself and x no directory; the directory that is to hold y is missing,  *)
(* is no directory, or may not be searched and written, or the one that    *)
(* holds x may not; y is a directory and x is none, or the reverse; y is a *)
(* directory that is not empty; x is a directory that goes to another      *)
(* parent and may not be written.  When the call succeeds the entry and    *)
(* its subtree have moved as claimed, and nothing else has changed but the *)
(* modification time and link count of the directories that hold x and y;  *)
(* when it fails the failure is reported and the file system is unchanged. *)
(***************************************************************************)
RenameRefused(x, y) ==
    \/ Below(x, y)
    \/ Below(y, x)
    \/ y = OutputRoot /\ pre[x].kind # "dir"
    \/ ~MayChangeParent(pre, y)
    \/ ~MayChangeParent(pre, x)
    \/ y \in DOMAIN pre /\ (pre[y].kind = "dir") # (pre[x].kind = "dir")
    \/ y \in DOMAIN pre /\ \E q \in DOMAIN pre : Below(y, q) /\ q # y
    \/ pre[x].kind = "dir" /\ parent(x) # parent(y) /\ ~May(pre, x, "w")

C8_RenameMovesOrReports ==
    RenameCase =>
        LET x == Mirrored(last.paths[1])
            y == Mirrored(last.paths[2])
            written == <<MirroredPath(last.paths[1]), MirroredPath(last.paths[2])>>
        IN  /\ Len(calls) = 1
            /\ calls[1].op = "rename"
            /\ calls[1].args = written
            /\ (calls[1].err # "") = RenameRefused(x, y)
            /\ IF calls[1].err = ""
               THEN RenameMoved(x, y, {parent(x).val, parent(y).val})
               ELSE fs = pre /\ Reported("Failed to rename", written)

\* a file was to be renamed to the watch root itself: the call got the
\* output root written with a separator at its end, and was refused
C8_OntoTheRoot ==
    /\ RenameCase
    /\ last.paths[2] = WatchRoot
    /\ pre[Mirrored(last.paths[1])].kind = "file"
    /\ calls[1].args[2] = OutputRoot \o <<"">>
    /\ calls[1].err = "ENOTDIR"

\* a directory with a file in it has been renamed
C8_Witness ==
    /\ RenameCase
    /\ calls[1].err = ""
    /\ pre[Mirrored(last.paths[1])].kind = "dir"
    /\ \E q \in DOMAIN pre :
           Below(Mirrored(last.paths[1]), q) /\ q # Mirrored(last.paths[1])

(***************************************************************************)
(* C9.  As claimed: a Remove event for a path under the watch root, with   *)
(* an entry at the mirrored path, removes that entry, a directory with its *)
(* whole subtree, and changes no entry other than the mirrored path and    *)
(* its descendants.  A removal gives the directory that held the entry a   *)
(* new modification time, and a removal that is denied access on the way   *)
(* leaves the entry there.                                                 *)
(***************************************************************************)
C9_RemovesAndNothingElseChanges ==
    (/\ Handled("Remove")
     /\ UnderWatch(last.paths[1])
     /\ Mirrored(last.paths[1]) \in DOMAIN pre)
        => /\ \A q \in DOMAIN fs : ~Below(Mirrored(last.paths[1]), q)
           /\ \A q \in DOMAIN fs \cup DOMAIN pre :
                  ~Below(Mirrored(last.paths[1]), q) => ~Differs(fs, pre, q)

(***************************************************************************)
(* C9, amended.  A Remove event for a path under the watch root makes one  *)
(* call on the mirrored path: remove_dir_all when stat sees a directory    *)
(* there, else remove_file.  When the call succeeds nothing is left at the *)
(* mirrored path or below it: a directory went with its whole subtree,     *)
(* anything else (a file, a symbolic link, also one to a directory) as a   *)
(* single entry.  The call on an entry that is there fails only when the   *)
(* process is denied access, and the failure is reported.  Either way no   *)
(* entry other than the mirrored path and its descendants has changed; the *)
(* directory that held the removed entry has the new modification time and *)
(* link count a removal gives it.                                          *)
(***************************************************************************)
C9_RemoveSubtreeOnly ==
    (Handled("Remove") /\ UnderWatch(last.paths[1])) =>
        LET m == Mirrored(last.paths[1])
        IN  /\ Len(calls) = 1
            /\ calls[1].args = <<MirroredPath(last.paths[1])>>
            /\ calls[1].op = IF is_dir(pre, m) THEN "remove_dir_all"
                             ELSE "remove_file"
            /\ IF calls[1].err = ""
               THEN /\ m \in DOMAIN pre
                    /\ \A q \in DOMAIN fs : ~Below(m, q)
                    /\ Touched(parent(m).val, 0, DirCount(pre[m]))
               ELSE /\ Reported("Failed to delete",
                             <<MirroredPath(last.paths[1])>>)
                    /\ m \in DOMAIN pre => calls[1].err = "EACCES"
                    /\ ~Differs(fs, pre, parent(m).val)
            /\ \A q \in DOMAIN fs \cup DOMAIN pre :
                   (~Below(m, q) /\ q # parent(m).val) => ~Differs(fs, pre, q)

\* a mirrored directory with a file in it has been removed
C9_Witness ==
    /\ Handled("Remove")
    /\ UnderWatch(last.paths[1])
    /\ Mirrored(last.paths[1]) \in DOMAIN pre
    /\ pre[Mirrored(last.paths[1])].kind = "dir"
    /\ \E q \in DOMAIN pre :
           Below(Mirrored(last.paths[1]), q) /\ q # Mirrored(last.paths[1])
    /\ \E q \in DOMAIN fs : UnderOutput(q) /\ q # OutputRoot
    /\ calls[1].err = ""

\* a removal was refused in the middle: an entry of the directory is gone,
\* the directory and another entry of it are still there
C9_RefusedHalfway ==
    /\ Handled("Remove")
    /\ UnderWatch(last.paths[1])
    /\ calls[1].op = "remove_dir_all" /\ calls[1].err = "EACCES"
    /\ Mirrored(last.paths[1]) \in DOMAIN fs
    /\ \E q \in DOMAIN pre \ DOMAIN fs : Below(Mirrored(last.paths[1]), q)

\* the same removal was refused at its first step: nothing is gone
C9_RefusedAtOnce ==
    /\ Handled("Remove")
    /\ UnderWatch(last.paths[1])
    /\ calls[1].op = "remove_dir_all" /\ calls[1].err = "EACCES"
    /\ fs = pre
    /\ \E q \in DOMAIN pre :
           /\ Below(Mirrored(last.paths[1]), q)
           /\ pre[q].kind = "file"
           /\ parent(q).val = Mirrored(last.paths[1])
           /\ May(pre, parent(q).val, "x") /\ May(pre, parent(q).val, "w")

(***************************************************************************)
(* C10.  A Create event for a file that is no symbolic link and has more   *)
(* than one link prints the "unsupported hardlink" line and nothing else,  *)
(* makes no file-system call and leaves the file system unchanged.         *)
(***************************************************************************)
C10_HardlinkUnsupported ==
    (/\ Handled("Create")
     /\ last.paths[1] \in DOMAIN pre
     /\ pre[last.paths[1]].kind = "file"
     /\ pre[last.paths[1]].nlink > 1)
        => /\ out = <<Line("Created[unsupported][hardlink]", <<last.paths[1]>>)>>
           /\ calls = <<>>
           /\ fs = pre

\* a Create event for the hard-linked file of the watched tree was handled
C10_Witness ==
    /\ Handled("Create")
    /\ last.paths[1] \in DOMAIN pre
    /\ pre[last.paths[1]].kind = "file"
    /\ pre[last.paths[1]].nlink > 1
    /\ out # <<>>

\* two file systems hold the same entries; the time of the last data write,
\* which a copy sets to the time the copy is made, is not compared
SameTree(f, g) ==
    /\ DOMAIN f = DOMAIN g
    /\ \A p \in DOMAIN f : [f[p] EXCEPT !.times = Now] = [g[p] EXCEPT !.times = Now]

(***************************************************************************)
(* C11.  Idempotence: once a Modify/Data event has been handled, handling  *)
(* the same event again with nothing changed in between leaves the file    *)
(* system as the first handling left it (up to the time of the write); and *)
(* once a Modify/Metadata event has been handled, handling it again        *)
(* leaves the file system exactly as it is, timestamps included.           *)
(***************************************************************************)
C11_HandlingTwiceIsHandlingOnce ==
    \A order \in OrdersFor(last.kind) :
        /\ Handled("ModifyDataAny") =>
               SameTree(handle_event(fs, last.kind, last.paths, order).fs, fs)
        /\ Handled("ModifyMetadataAny") =>
               handle_event(fs, last.kind, last.paths, order).fs = fs

\* a Modify/Data event whose copy replaced drifted content has been handled
C11_Witness ==
    /\ Handled("ModifyDataAny")
    /\ Len(calls) = 2 /\ calls[2].op = "copy" /\ calls[2].err = ""
    /\ \E p \in Changed : p \in DOMAIN pre /\ pre[p].content # fs[p].content

(***************************************************************************)
(* C12.  As claimed: a Modify/Metadata event for a path P under the watch  *)
(* root, with an entry at P and an entry at the mirrored path, sets the    *)
(* mode of the mirrored entry to the source's mode, and changes nothing    *)
(* but the mode, the times and the owner of that one entry.  On an entry   *)
(* of another user set_permissions is refused and the mode stays.          *)
(***************************************************************************)
C12_MetadataAlwaysSet ==
    (/\ Handled("ModifyMetadataAny")
     /\ UnderWatch(last.paths[1])
     /\ metadata(pre, last.paths[1]).some
     /\ metadata(pre, Mirrored(last.paths[1])).some)
    => LET e == EntryAt(pre, Mirrored(last.paths[1]))
       IN  /\ fs[e].mode = metadata(pre, last.paths[1]).val.mode
           /\ DOMAIN fs = DOMAIN pre
           /\ \A q \in DOMAIN pre : q # e => fs[q] = pre[q]
           /\ fs[e] = [pre[e] EXCEPT !.mode = fs[e].mode, !.times = fs[e].times,
                                     !.owner = fs[e].owner]

(***************************************************************************)
(* C12, amended.  A Modify/Metadata event for a path P under the watch     *)
(* root, with an entry at P and an entry at the mirrored path (both as     *)
(* stat sees them, links followed): the entry at the mirrored path has     *)
(* the source's permission mode when it is the process's own (set_         *)
(* permissions is refused on an entry of another user, and then the entry  *)
(* is as it was), and nothing but the mode, the times and the owner of     *)
(* that one entry has changed: no entry appeared or went, and every other  *)
(* entry is as it was.                                                     *)
(***************************************************************************)
C12_MetadataOnlyOfTheMirroredEntry ==
    (/\ Handled("ModifyMetadataAny")
     /\ UnderWatch(last.paths[1])
     /\ metadata(pre, last.paths[1]).some
     /\ metadata(pre, Mirrored(last.paths[1])).some)
    => LET e == EntryAt(pre, Mirrored(last.paths[1]))
       IN  /\ IF pre[e].owner = ProcUser
              THEN /\ calls[1].err = ""
                   /\ fs[e].mode = metadata(pre, last.paths[1]).val.mode
              ELSE calls[1].err = "EPERM" /\ fs[e] = pre[e]
           /\ DOMAIN fs = DOMAIN pre
           /\ \A q \in DOMAIN pre : q # e => fs[q] = pre[q]
           /\ fs[e] = [pre[e] EXCEPT !.mode = fs[e].mode, !.times = fs[e].times,
                                     !.owner = fs[e].owner]

\* a Modify/Metadata event has given the mirrored entry another mode
C12_Witness ==
    /\ Handled("ModifyMetadataAny")
    /\ UnderWatch(last.paths[1])
    /\ metadata(pre, last.paths[1]).some
    /\ metadata(pre, Mirrored(last.paths[1])).some
    /\ metadata(pre, Mirrored(last.paths[1])).val.mode
           # metadata(pre, last.paths[1]).val.mode
    /\ fs[EntryAt(pre, Mirrored(last.paths[1]))].mode
           = metadata(pre, last.paths[1]).val.mode

(***************************************************************************)
(* C13.  Every event handled, other than an Access event, leaves at least  *)
(* one output line: no event but Access is dropped without a word.         *)
(***************************************************************************)
C13_NoEventDroppedSilently ==
    (last.type = "event" /\ last.kind # "Access") => out # <<>>

\* a Create event for a symbolic link at a path under the watch root
SymlinkCase ==
    /\ Handled("Create")
    /\ UnderWatch(last.paths[1])
    /\ is_symlink(pre, last.paths[1])

\* the target the mirrored link is to have: the source link's target moved
\* under the output root when it lies under the watch root, else unchanged
MirroredTarget(t) == IF UnderWatch(t) THEN MirroredPath(t) ELSE t

DataCase ==
    /\ Handled("ModifyDataAny")
    /\ UnderWatch(last.paths[1])
    /\ ~is_symlink(pre, last.paths[1])

\* the proper prefixes of p
Ancestors(p) == {SubSeq(p, 1, k) : k \in 1..(Len(p) - 1)}

(***************************************************************************)
(* C15.  A Modify/Data event for a file at P under the watch root: first   *)
(* create_dir_all is called on the mirrored path's parent; if it fails,    *)
(* that is reported and no copy is attempted; otherwise every ancestor of  *)
(* the mirrored path is a directory and fs::copy(P, mirrored path) is      *)
(* called; if the copy fails that is reported, otherwise the file at the   *)
(* mirrored path holds exactly the content the source file held.           *)
(***************************************************************************)
C15_ParentsThenFullCopy ==
    DataCase =>
        LET P == last.paths[1]
            M == Mirrored(P)
            W == MirroredPath(P)
        IN  /\ Len(calls) >= 1
            /\ calls[1].op = "create_dir_all" /\ calls[1].args = <<parent(M).val>>
            /\ IF calls[1].err # ""
               THEN /\ Len(calls) = 1
                    /\ Reported("Failed to create parent dirs", <<W>>)
               ELSE /\ Len(calls) = 2
                    /\ calls[2].op = "copy" /\ calls[2].args = <<P, W>>
                    /\ \A a \in Ancestors(M) : is_dir(fs, a)
                    /\ IF calls[2].err # ""
                       THEN Reported("Failed to copy data", <<P, W>>)
                       ELSE /\ is_file(fs, M)
                            /\ metadata(fs, M).val.content
                                   = metadata(pre, P).val.content
                            /\ out = <<Line("Data", <<P>>)>>

\* a file has been copied to a mirrored path whose parent directory was
\* missing, and replaced nothing or other content
C15_Witness ==
    /\ DataCase
    /\ is_file(pre, last.paths[1])
    /\ \E a \in Ancestors(Mirrored(last.paths[1])) : ~Exists(pre, a) /\ is_dir(fs, a)
    /\ Len(calls) = 2 /\ calls[2].err = ""
    /\ metadata(fs, Mirrored(last.paths[1])).val.content
           = metadata(pre, last.paths[1]).val.content

\* creating the parent directories has failed and no copy was attempted
C15_ParentsFailed ==
    DataCase /\ Len(calls) = 1 /\ calls[1].err # ""

\* the lines among the output that report a failed step
Failures == {i \in DOMAIN out : out[i].msg \in {"Failed to set permissions",
                                                "Failed to set timestamps",
                                                "Failed to set owner/group"}}

(***************************************************************************)
(* C16.  SyncMetadata: when the path is not under the watch root or the    *)
(* source metadata cannot be read, no step is made.  Otherwise the three   *)
(* steps are all made, in the order permissions, timestamps, owner/group,  *)
(* whatever the outcome of the steps before; each step that fails is       *)
(* reported on a line of its own, and each step that succeeds has set its  *)
(* value on the entry the mirrored path led to.                            *)
(***************************************************************************)
C16_MetadataStepsIndependent ==
    Handled("ModifyMetadataAny") =>
        LET P == last.paths[1]
            M == Mirrored(P)
            W == MirroredPath(P)
            src == metadata(pre, P)
        IN  IF ~UnderWatch(P) \/ ~src.some
            THEN /\ calls = <<>> /\ fs = pre
                 /\ Failures = {}
                 /\ IF UnderWatch(P)
                    THEN Reported("Failed to read metadata", <<P>>)
                    ELSE out[2] = handle_not_under_watch_error(P)
            ELSE /\ Len(calls) = 3
                 /\ calls[1].op = "set_permissions" /\ calls[1].args = <<W>>
                 /\ calls[2].op = "set_file_times" /\ calls[2].args = <<W>>
                 /\ calls[3].op = "chown" /\ calls[3].args = <<W>>
                 /\ (calls[1].err # "") = Reported("Failed to set permissions", <<W>>)
                 /\ (calls[2].err # "") = Reported("Failed to set timestamps", <<W>>)
                 /\ (calls[3].err # "") = Reported("Failed to set owner/group", <<W>>)
                 /\ Cardinality(Failures)
                        = Cardinality({i \in 1..3 : calls[i].err # ""})
                 /\ calls[1].err = "" => fs[EntryAt(pre, M)].mode = src.val.mode
                 /\ calls[2].err = "" => fs[EntryAt(pre, M)].times = src.val.times
                 /\ calls[3].err = "" => fs[EntryAt(pre, M)].owner = src.val.owner

\* the first step has failed, and the two later steps were made all the same
C16_Witness ==
    /\ Handled("ModifyMetadataAny")
    /\ Len(calls) = 3
    /\ calls[1].err # ""
    /\ Cardinality(Failures) = 3

\* the first two steps have succeeded and the third alone has failed
C16_OwnerStepFailed ==
    /\ Handled("ModifyMetadataAny")
    /\ Len(calls) = 3
    /\ calls[1].err = "" /\ calls[2].err = "" /\ calls[3].err = "EPERM"
    /\ Cardinality(Failures) = 1

\* a Create event for a directory at a path under the watch root
DirCase ==
    /\ Handled("Create")
    /\ UnderWatch(last.paths[1])
    /\ ~is_symlink(pre, last.paths[1])
    /\ is_dir(pre, last.paths[1])

(***************************************************************************)
(* C17.  A Create event for a directory at P under the watch root makes    *)
(* one call, create_dir(mirrored path).  It succeeds exactly when nothing  *)
(* is at the mirrored path and its parent is a directory that the process  *)
(* may search and write, and then the mirrored directory is the one entry  *)
(* added: no ancestor is created (the parent gets the new modification     *)
(* time and link count of a directory that a sub-directory was added to).  *)
(* Otherwise the file system is unchanged and the failure is reported.     *)
(* Either way the loop goes on, until the channel is closed and empty.     *)
(***************************************************************************)
C17_OneDirectoryNoAncestors ==
    DirCase =>
        LET M == Mirrored(last.paths[1])
        IN  /\ Len(calls) = 1
            /\ calls[1].op = "create_dir"
            /\ calls[1].args = <<MirroredPath(last.paths[1])>>
            /\ (calls[1].err = "")
                   = (~symlink_metadata(pre, M).some /\ MayChangeParent(pre, M))
            /\ IF calls[1].err = ""
               THEN /\ DOMAIN fs = DOMAIN pre \cup {M}
                    /\ fs[M].kind = "dir"
                    /\ \A q \in DOMAIN pre \ {parent(M).val} : fs[q] = pre[q]
                    /\ Touched(parent(M).val, 1, 0)
                    /\ out = <<Line("Created[dir]", <<last.paths[1]>>)>>
               ELSE /\ fs = pre
                    /\ Reported("Failed to create dir",
                                <<MirroredPath(last.paths[1])>>)
            /\ pc \in {"loop", "done"}
            /\ pc = "done" => closed /\ chan = <<>>

\* a directory was to be mirrored below a parent that is missing: nothing
\* was created and the failure was reported
C17_Witness ==
    /\ DirCase
    /\ ~Exists(pre, parent(Mirrored(last.paths[1])).val)
    /\ calls[1].err = "ENOENT"
    /\ fs = pre
    /\ Reported("Failed to create dir", <<Mirrored(last.paths[1])>>)

\* a directory has been mirrored
C17_Created ==
    DirCase /\ calls[1].err = "" /\ ~Exists(pre, Mirrored(last.paths[1]))

\* a directory was to be mirrored where an entry already is
C17_AlreadyThere ==
    DirCase /\ calls[1].err = "EEXIST" /\ fs = pre

\* the steps of a run that make, write or read a key
KeySteps == {"generate", "write private", "chmod private", "write public",
             "chmod public", "read private", "read private failed"}

(***************************************************************************)
(* C18.  In a run of the key utility the check of the key directory comes  *)
(* before every step that generates, writes or reads a key, and such a     *)
(* step is made only for a directory without group and other bits.  A run  *)
(* for a directory that has a group or other bit ends in an error right    *)
(* after the check: no key is generated, no key file written or read.      *)
(***************************************************************************)
C18_CheckBeforeKeys ==
    keyrun.prog # "none" =>
        /\ \A i \in DOMAIN keyrun.log :
               keyrun.log[i] \in KeySteps =>
                   /\ i > 1 /\ keyrun.log[1] = "verify"
                   /\ keyrun.dir.exists
                   /\ BitAnd(keyrun.dir.mode, GroupOther) = 0
        /\ (/\ keyrun.dir.exists
            /\ BitAnd(keyrun.dir.mode, GroupOther) > 0
            /\ keyrun.log # <<>>)
           => /\ keyrun.pc \in {"exit", "error"}
              /\ keyrun.log = <<"verify">>
              /\ ~keyrun.peer
              /\ keyrun.prog \in {"keys", "keygen"} =>
                     keyrun.private = NoFile /\ keyrun.public = NoFile

\* keys.rs has been run for a directory its group may enter, and has exited
\* after the check
C18_Witness ==
    /\ keyrun.prog = "keys"
    /\ keyrun.dir.exists
    /\ BitAnd(keyrun.dir.mode, GroupOther) > 0
    /\ BitAnd(keyrun.dir.mode, 7) = 0
    /\ keyrun.pc = "exit"
    /\ keyrun.log = <<"verify">>

\* keys.rs has run to its end for a directory of the owner alone
C18_KeysAfterCheck ==
    /\ keyrun.prog = "keys"
    /\ keyrun.pc = "done"
    /\ keyrun.log = <<"verify", "generate", "write private", "chmod private",
                      "write public", "chmod public", "read private">>

(***************************************************************************)
(* C19.  Whenever the private key file holds the private key, between the  *)
(* two calls of write_key included, its mode has no group or other bit;    *)
(* and when a run that writes keys is done, the public key file is         *)
(* world-readable.                                                         *)
(***************************************************************************)
C19_PrivateKeyOwnerOnly ==
    keyrun.prog # "none" =>
        /\ (keyrun.private.exists /\ keyrun.private.content = "private key")
               => BitAnd(keyrun.private.mode, GroupOther) = 0
        /\ (keyrun.pc = "done" /\ keyrun.prog \in {"keys", "keygen"})
               => keyrun.public.exists /\ keyrun.public.mode = PublicMode

(***************************************************************************)
(* C20.  handle_event reads no path index the event does not carry:        *)
(* whatever the kind and however many paths (none, one, two) the event     *)
(* has, handling it returns and the loop goes on.                          *)
(***************************************************************************)
C20_NoIndexPastThePaths ==
    last.type = "event" => pc # "panicked"


====
